---- MODULE Spec2Model ----
(***************************************************************************)
(* Model of the rust-ollama client library: the client configuration, the  *)
(* listing call (GET /api/tags), the detail call (POST /api/show) and the  *)
(* enrichment PartialModel::to_model, each in its blocking and its         *)
(* non-blocking build.                                                     *)
(*                                                                         *)
(* Strings are TLA+ strings (format! is \o), Option<T> is a tagged record, *)
(* Result<T, Box<dyn Error>> is a tagged record carrying the error kind,   *)
(* and a JSON text is a tagged value tree (see the J* constructors).       *)
(***************************************************************************)
EXTENDS Integers, Sequences, FiniteSets, TLC

(***************************************************************************)
(* Option and Result.                                                      *)
(***************************************************************************)
None == [k |-> "none"]
Some(x) == [k |-> "some", v |-> x]

Ok(x) == [ok |-> TRUE, val |-> x]
Err(kind) == [ok |-> FALSE, err |-> kind]

\* reqwest::Error: the request could not be sent, the status is an error
\* status, or the body could not be read
TransportError == "TransportError"
\* serde_json::Error: the body is not the JSON the target type expects
DecodeError == "DecodeError"

(***************************************************************************)
(* JSON values.  JInvalid stands for a text that is not JSON at all.       *)
(***************************************************************************)
JInvalid == [k |-> "invalid"]
JNull == [k |-> "null"]
JStr(s) == [k |-> "str", v |-> s]
JNum(n) == [k |-> "num", v |-> n]
JBool(b) == [k |-> "bool", v |-> b]
JArr(s) == [k |-> "arr", v |-> s]
JObj(f) == [k |-> "obj", v |-> f]

HasField(j, name) == j.k = "obj" /\ name \in DOMAIN j.v

(***************************************************************************)
(* crate::constants: the default endpoint, host http://localhost and port  *)
(* 11434, and the two endpoint suffixes.                                   *)
(***************************************************************************)
TEST_ENDPOINT_HOST == "http://localhost"
TEST_ENDPOINT_PORT == 11434
TEST_ENDPOINT == "http://localhost:11434"
API_TAGS_ENDPOINT == "/api/tags"
SHOW_ENDPOINT == "/api/show"

(***************************************************************************)
(* The client configuration.  api/client.rs holds it as struct Client, one *)
(* base URL given whole at construction; api/show.rs and                   *)
(* structs/partialmodel.rs use it as struct Ollama of the same module,     *)
(* a host and an optional port set by new / with_host / with_port.  A      *)
(* configuration value is a record of either shape.                        *)
(***************************************************************************)
\* variant of Client::new with a slip: the base URL gets a trailing slash
Client_new_slash(base_url) == [base_url |-> base_url \o "/"]

Client_new(base_url) == [base_url |-> base_url]

Ollama_new == [host |-> TEST_ENDPOINT_HOST, port |-> Some(TEST_ENDPOINT_PORT)]

\* variant of with_host with a slip: the port is reset to the default
with_host_resets_port(o, h) ==
    [o EXCEPT !.host = h, !.port = Some(TEST_ENDPOINT_PORT)]

with_host(o, h) == [o EXCEPT !.host = h]

with_port(o, p) == [o EXCEPT !.port = Some(p)]

IsOllama(c) == "host" \in DOMAIN c

Client_base_url(c) == c.base_url

Ollama_base_url(o) ==
    IF o.port.k = "none" THEN o.host
    ELSE o.host \o ":" \o ToString(o.port.v)

\* client.base_url() on whichever of the two the caller holds
base_url(c) == IF IsOllama(c) THEN Ollama_base_url(c) ELSE Client_base_url(c)

(***************************************************************************)
(* serde_json::from_str into the derived Deserialize types.                *)
(*                                                                         *)
(* A derived struct is read from a JSON object (unknown keys are skipped,  *)
(* a missing Option field is None, a missing other field is an error) or   *)
(* from a JSON array holding exactly its fields in declaration order.      *)
(***************************************************************************)
\* api/list.rs: struct Model { name, description }
ListModel_fields ==
    << [name |-> "name", ty |-> "String"],
       [name |-> "description", ty |-> "Option<String>"] >>

\* api/list.rs: struct ModelsResponse { models }
ModelsResponse_fields == << [name |-> "models", ty |-> "Vec<Model>"] >>

\* structs/model.rs: struct ModelDetails
ModelDetails_fields ==
    << [name |-> "parent_model", ty |-> "Option<String>"],
       [name |-> "format", ty |-> "Option<String>"],
       [name |-> "family", ty |-> "Option<String>"],
       [name |-> "families", ty |-> "Option<Vec<String>>"],
       [name |-> "parameter_size", ty |-> "Option<String>"],
       [name |-> "quantization_level", ty |-> "Option<String>"] >>

\* api/show.rs: struct ShowResponse
ShowResponse_fields ==
    << [name |-> "modelfile", ty |-> "String"],
       [name |-> "parameters", ty |-> "String"],
       [name |-> "template", ty |-> "String"],
       [name |-> "details", ty |-> "ModelDetails"],
       [name |-> "model_info", ty |-> "Option<Value>"] >>

\* structs/model.rs: struct Model
Model_fields ==
    << [name |-> "name", ty |-> "String"],
       [name |-> "model", ty |-> "String"],
       [name |-> "modified_at", ty |-> "String"],
       [name |-> "size", ty |-> "u64"],
       [name |-> "digest", ty |-> "String"],
       [name |-> "details", ty |-> "ModelDetails"] >>

Fields(ty) ==
    CASE ty = "Model" -> ListModel_fields
      [] ty = "structs::Model" -> Model_fields
      [] ty = "ModelsResponse" -> ModelsResponse_fields
      [] ty = "ModelDetails" -> ModelDetails_fields
      [] ty = "ShowResponse" -> ShowResponse_fields

IsOption(ty) == ty \in {"Option<String>", "Option<Vec<String>>", "Option<Value>"}

\* the element type of Vec<T>, the payload type of Option<T>
Inner(ty) ==
    CASE ty = "Vec<Model>" -> "Model"
      [] ty = "Vec<String>" -> "String"
      [] ty = "Option<String>" -> "String"
      [] ty = "Option<Vec<String>>" -> "Vec<String>"
      [] ty = "Option<Value>" -> "Value"

RECURSIVE Decode(_, _)
Decode(ty, j) ==
    IF ty = "Value" THEN Ok(j)
    ELSE IF ty = "String" THEN
        IF j.k = "str" THEN Ok(j.v) ELSE Err(DecodeError)
    ELSE IF ty = "u64" THEN
        IF j.k = "num" /\ j.v \in Nat THEN Ok(j.v) ELSE Err(DecodeError)
    ELSE IF IsOption(ty) THEN
        IF j.k = "null" THEN Ok(None)
        ELSE LET r == Decode(Inner(ty), j)
             IN IF r.ok THEN Ok(Some(r.val)) ELSE r
    ELSE IF ty \in {"Vec<Model>", "Vec<String>"} THEN
        IF j.k # "arr" THEN Err(DecodeError)
        ELSE LET rs == [i \in 1..Len(j.v) |-> Decode(Inner(ty), j.v[i])]
             IN IF \A i \in 1..Len(j.v) : rs[i].ok
                THEN Ok([i \in 1..Len(j.v) |-> rs[i].val])
                ELSE Err(DecodeError)
    ELSE \* a derived struct
        LET fs == Fields(ty)
            fv == [i \in 1..Len(fs) |->
                    IF j.k = "obj" THEN
                        IF fs[i].name \in DOMAIN j.v
                        THEN Decode(fs[i].ty, j.v[fs[i].name])
                        ELSE IF IsOption(fs[i].ty) THEN Ok(None)
                        ELSE Err(DecodeError)
                    ELSE Decode(fs[i].ty, j.v[i])]
            idx(n) == CHOOSE i \in 1..Len(fs) : fs[i].name = n
        IN IF j.k = "obj" \/ (j.k = "arr" /\ Len(j.v) = Len(fs))
           THEN IF \A i \in 1..Len(fs) : fv[i].ok
                THEN Ok([n \in {fs[i].name : i \in 1..Len(fs)} |-> fv[idx(n)].val])
                ELSE Err(DecodeError)
           ELSE Err(DecodeError)

from_str(ty, raw_body) ==
    IF raw_body.k = "invalid" THEN Err(DecodeError) ELSE Decode(ty, raw_body)

(***************************************************************************)
(* Encoding: what the derived Serialize writes for a value of a type.  A   *)
(* struct is written as an object with every field, None as null.          *)
(***************************************************************************)
RECURSIVE Serialize(_, _)
Serialize(ty, x) ==
    IF ty = "String" THEN JStr(x)
    ELSE IF ty = "u64" THEN JNum(x)
    ELSE IF IsOption(ty) THEN
        IF x.k = "none" THEN JNull ELSE Serialize(Inner(ty), x.v)
    ELSE IF ty = "Vec<String>" THEN
        JArr([i \in 1..Len(x) |-> Serialize(Inner(ty), x[i])])
    ELSE \* a derived struct
        LET fs == Fields(ty)
            idx(n) == CHOOSE i \in 1..Len(fs) : fs[i].name = n
        IN JObj([n \in {fs[i].name : i \in 1..Len(fs)} |->
                    Serialize(fs[idx(n)].ty, x[n])])

to_string(ty, x) == Ok(Serialize(ty, x))

(***************************************************************************)
(* structs/model.rs: Model::json.  The variant before it writes the size   *)
(* as a quoted number.                                                     *)
(***************************************************************************)
json_quoted_size(self) ==
    LET j == Serialize("structs::Model", self)
    IN Ok(JObj([j.v EXCEPT !.size = JStr(ToString(self.size))]))

json(self) == to_string("structs::Model", self)

(***************************************************************************)
(* The transport: what the backend does with one request.                  *)
(*   sent      the request went out and a response head came back          *)
(*   status    the response status                                         *)
(*   readable  the response body could be read                             *)
(*   body      the response body                                           *)
(***************************************************************************)
NotSent == [sent |-> FALSE, status |-> 0, readable |-> FALSE, body |-> JInvalid]
Unreadable(st) == [sent |-> TRUE, status |-> st, readable |-> FALSE, body |-> JInvalid]
Answer(st, b) == [sent |-> TRUE, status |-> st, readable |-> TRUE, body |-> b]

\* reqwest Response::error_for_status: an error for client and server error
\* statuses (4xx, 5xx), the response itself otherwise
error_for_status(status) ==
    IF status \in 400..599 THEN Err(TransportError) ELSE Ok(status)

IsSuccess(status) == status \in 200..299

(***************************************************************************)
(* What one call did: the URL it built, the requests it issued, whether it *)
(* handed the body to serde_json::from_str, and what it returned.          *)
(***************************************************************************)
Outcome(url, reqs, parsed, result) ==
    [url |-> url, reqs |-> reqs, parsed |-> parsed, result |-> result]

Get(url) == [method |-> "GET", url |-> url, body |-> JNull]
Post(url, body) == [method |-> "POST", url |-> url, body |-> body]

(***************************************************************************)
(* api/list.rs: list, blocking and non-blocking build.                     *)
(***************************************************************************)
\* variant of list with a slip: repeated entries are dropped
Dedup(seq) ==
    SelectSeq([i \in 1..Len(seq) |-> [i |-> i, x |-> seq[i]]],
              LAMBDA e : \A j \in 1..(e.i - 1) : seq[j] # e.x)

list_sync_dedup(client, resp) ==
    LET url == IF client.k = "some"
               THEN base_url(client.v) \o API_TAGS_ENDPOINT
               ELSE TEST_ENDPOINT \o API_TAGS_ENDPOINT
        reqs == << Get(url) >>
    IN IF ~resp.sent THEN Outcome(url, reqs, FALSE, Err(TransportError))
       ELSE IF ~error_for_status(resp.status).ok
            THEN Outcome(url, reqs, FALSE, Err(TransportError))
       ELSE IF ~resp.readable THEN Outcome(url, reqs, FALSE, Err(TransportError))
       ELSE LET models_response == from_str("ModelsResponse", resp.body)
            IN IF models_response.ok
               THEN Outcome(url, reqs, TRUE,
                            Ok([i \in 1..Len(Dedup(models_response.val.models))
                                  |-> Dedup(models_response.val.models)[i].x]))
               ELSE Outcome(url, reqs, TRUE, models_response)

list_sync(client, resp) ==
    LET url == IF client.k = "some"
               THEN base_url(client.v) \o API_TAGS_ENDPOINT
               ELSE TEST_ENDPOINT \o API_TAGS_ENDPOINT
        reqs == << Get(url) >>
    IN IF ~resp.sent THEN Outcome(url, reqs, FALSE, Err(TransportError))
       ELSE IF ~error_for_status(resp.status).ok
            THEN Outcome(url, reqs, FALSE, Err(TransportError))
       ELSE IF ~resp.readable THEN Outcome(url, reqs, FALSE, Err(TransportError))
       ELSE LET models_response == from_str("ModelsResponse", resp.body)
            IN IF models_response.ok
               THEN Outcome(url, reqs, TRUE, Ok(models_response.val.models))
               ELSE Outcome(url, reqs, TRUE, models_response)

list_async(client, resp) ==
    LET url == IF client.k = "some"
               THEN base_url(client.v) \o API_TAGS_ENDPOINT
               ELSE TEST_ENDPOINT \o API_TAGS_ENDPOINT
        reqs == << Get(url) >>
    IN IF ~resp.sent THEN Outcome(url, reqs, FALSE, Err(TransportError))
       ELSE IF ~error_for_status(resp.status).ok
            THEN Outcome(url, reqs, FALSE, Err(TransportError))
       ELSE IF ~resp.readable THEN Outcome(url, reqs, FALSE, Err(TransportError))
       ELSE LET models_response == from_str("ModelsResponse", resp.body)
            IN IF models_response.ok
               THEN Outcome(url, reqs, TRUE, Ok(models_response.val.models))
               ELSE Outcome(url, reqs, TRUE, models_response)

(***************************************************************************)
(* api/sync/list.rs and api/async/list.rs: list_models.  The response is   *)
(* read and parsed whatever its status.                                    *)
(***************************************************************************)
list_models_sync(base, resp) ==
    LET url == base \o API_TAGS_ENDPOINT
        reqs == << Get(url) >>
    IN IF ~resp.sent THEN Outcome(url, reqs, FALSE, Err(TransportError))
       ELSE IF ~resp.readable THEN Outcome(url, reqs, FALSE, Err(TransportError))
       ELSE LET models_response == from_str("ModelsResponse", resp.body)
            IN IF models_response.ok
               THEN Outcome(url, reqs, TRUE, Ok(models_response.val.models))
               ELSE Outcome(url, reqs, TRUE, models_response)

list_models_async(base, resp) ==
    LET url == base \o API_TAGS_ENDPOINT
        reqs == << Get(url) >>
    IN IF ~resp.sent THEN Outcome(url, reqs, FALSE, Err(TransportError))
       ELSE IF ~resp.readable THEN Outcome(url, reqs, FALSE, Err(TransportError))
       ELSE LET models_response == from_str("ModelsResponse", resp.body)
            IN IF models_response.ok
               THEN Outcome(url, reqs, TRUE, Ok(models_response.val.models))
               ELSE Outcome(url, reqs, TRUE, models_response)

(***************************************************************************)
(* api/show.rs: ShowRequest as .json(&request_body) writes it, and show in *)
(* the blocking and the non-blocking build.                                *)
(***************************************************************************)
ShowRequest(name, verbose) ==
    JObj([name |-> JStr(name),
          verbose |-> IF verbose.k = "some" THEN JBool(verbose.v) ELSE JNull])

show_sync(client, name, verbose, resp) ==
    LET url == IF client.k = "some"
               THEN base_url(client.v) \o SHOW_ENDPOINT
               ELSE TEST_ENDPOINT_HOST \o SHOW_ENDPOINT
        request_body == ShowRequest(name, verbose)
        reqs == << Post(url, request_body) >>
    IN IF ~resp.sent THEN Outcome(url, reqs, FALSE, Err(TransportError))
       ELSE IF ~error_for_status(resp.status).ok
            THEN Outcome(url, reqs, FALSE, Err(TransportError))
       ELSE IF ~resp.readable THEN Outcome(url, reqs, FALSE, Err(TransportError))
       ELSE Outcome(url, reqs, TRUE, from_str("ShowResponse", resp.body))

show_async(client, name, verbose, resp) ==
    LET url == IF client.k = "some"
               THEN base_url(client.v) \o SHOW_ENDPOINT
               ELSE TEST_ENDPOINT_HOST \o ":" \o ToString(TEST_ENDPOINT_PORT)
                        \o SHOW_ENDPOINT
        request_body == ShowRequest(name, verbose)
        reqs == << Post(url, request_body) >>
    IN IF ~resp.sent THEN Outcome(url, reqs, FALSE, Err(TransportError))
       ELSE IF ~error_for_status(resp.status).ok
            THEN Outcome(url, reqs, FALSE, Err(TransportError))
       ELSE IF ~resp.readable THEN Outcome(url, reqs, FALSE, Err(TransportError))
       ELSE Outcome(url, reqs, TRUE, from_str("ShowResponse", resp.body))

(***************************************************************************)
(* Model::from_show_response: the full record built from a ShowResponse.   *)
(* The response carries no name, model, modified_at, size or digest; fill  *)
(* is what the constructor puts there (the identity the detail reader      *)
(* reports).  The variant before it swaps parameters and template.         *)
(***************************************************************************)
from_show_response_template(response, fill) ==
    [name |-> fill.name,
     model |-> fill.model,
     modified_at |-> fill.modified_at,
     size |-> fill.size,
     digest |-> fill.digest,
     parameters |-> Some(response.template),
     template |-> Some(response.parameters),
     details |-> response.details,
     model_info |-> response.model_info]

from_show_response(response, fill) ==
    [name |-> fill.name,
     model |-> fill.model,
     modified_at |-> fill.modified_at,
     size |-> fill.size,
     digest |-> fill.digest,
     parameters |-> Some(response.parameters),
     template |-> Some(response.template),
     details |-> response.details,
     model_info |-> response.model_info]

(***************************************************************************)
(* structs/partialmodel.rs: PartialModel::to_model, both builds.           *)
(***************************************************************************)
\* variants of to_model with a slip: no name patch, show called by name,
\* a failed show answered with an empty record
to_model_sync_nopatch(self, client, resp, fill) ==
    LET response == show_sync(client, self.model, Some(TRUE), resp)
    IN IF ~response.result.ok THEN response
       ELSE [response EXCEPT
                !.result = Ok(from_show_response(response.result.val, fill))]

to_model_sync_byname(self, client, resp, fill) ==
    LET response == show_sync(client, self.name, Some(TRUE), resp)
    IN IF ~response.result.ok THEN response
       ELSE LET model == from_show_response(response.result.val, fill)
            IN [response EXCEPT !.result = Ok([model EXCEPT !.name = self.name])]

to_model_sync_swallow(self, client, resp, fill) ==
    LET response == show_sync(client, self.model, Some(TRUE), resp)
    IN IF ~response.result.ok
       THEN [response EXCEPT !.result = Ok([name |-> self.name])]
       ELSE LET model == from_show_response(response.result.val, fill)
            IN [response EXCEPT !.result = Ok([model EXCEPT !.name = self.name])]

\* further variants with a slip: the parameters of the response are lost
\* with the name patch, a failed show is tried a second time
to_model_sync_clobber(self, client, resp, fill) ==
    LET response == show_sync(client, self.model, Some(TRUE), resp)
    IN IF ~response.result.ok THEN response
       ELSE LET model == from_show_response(response.result.val, fill)
            IN [response EXCEPT
                  !.result = Ok([model EXCEPT !.name = self.name,
                                              !.parameters = None])]

to_model_sync_retry(self, client, resp, fill) ==
    LET response == show_sync(client, self.model, Some(TRUE), resp)
    IN IF ~response.result.ok
       THEN [response EXCEPT !.reqs = response.reqs \o response.reqs]
       ELSE LET model == from_show_response(response.result.val, fill)
            IN [response EXCEPT !.result = Ok([model EXCEPT !.name = self.name])]

to_model_sync(self, client, resp, fill) ==
    LET response == show_sync(client, self.model, Some(TRUE), resp)
    IN IF ~response.result.ok THEN response
       ELSE LET model == from_show_response(response.result.val, fill)
            IN [response EXCEPT !.result = Ok([model EXCEPT !.name = self.name])]

to_model_async(self, client, resp, fill) ==
    LET response == show_async(client, self.model, Some(TRUE), resp)
    IN IF ~response.result.ok THEN response
       ELSE LET model == from_show_response(response.result.val, fill)
            IN [response EXCEPT !.result = Ok([model EXCEPT !.name = self.name])]

(***************************************************************************)
(* Inputs of the model.                                                    *)
(***************************************************************************)
Hosts == {"http://localhost", "http://0.0.0.0"}
Ports == {11434, 8080}
LiteralHosts == {"http://0.0.0.0"}
BaseUrls == {"http://0.0.0.0:11434", "http://localhost:8080"}

\* (name, verbose) arguments of show
ShowArgs ==
    << [name |-> "m:1", verbose |-> None],
       [name |-> "m:1", verbose |-> Some(TRUE)],
       [name |-> "m:2", verbose |-> Some(FALSE)] >>

\* PartialModel values; the second has a name that is not its model
Partials ==
    << [name |-> "m:1", model |-> "m:1", modified_at |-> "t", size |-> 10,
        digest |-> "d"],
       [name |-> "alias", model |-> "m:2", modified_at |-> "u", size |-> 20,
        digest |-> "e"] >>

\* what from_show_response finds for the fields the response does not carry
Fills ==
    << [name |-> "", model |-> "", modified_at |-> "", size |-> 0, digest |-> ""],
       [name |-> "m:2", model |-> "m:2", modified_at |-> "u", size |-> 20,
        digest |-> "e"] >>

\* full records handed to Model::json; serde_json writes and reads a u64
\* digit for digit, so the sizes are kept small
Details ==
    << [parent_model |-> Some(""), format |-> Some("gguf"),
        family |-> Some("starcoder2"), families |-> Some(<< "starcoder2" >>),
        parameter_size |-> Some("3B"), quantization_level |-> Some("Q6_K")],
       [parent_model |-> None, format |-> None, family |-> None,
        families |-> None, parameter_size |-> None,
        quantization_level |-> None],
       [parent_model |-> None, format |-> Some(""), family |-> Some("f"),
        families |-> Some(<< >>), parameter_size |-> None,
        quantization_level |-> Some("Q4_0")] >>

Models ==
    << [name |-> "starcoder2:3b-q6_K", model |-> "starcoder2:3b-q6_K",
        modified_at |-> "2024-08-27T12:02:13.295534973+01:00",
        size |-> 249090224, digest |-> "a5864ede", details |-> Details[1]],
       [name |-> "", model |-> "", modified_at |-> "", size |-> 0,
        digest |-> "", details |-> Details[2]],
       [name |-> "alias", model |-> "m:2", modified_at |-> "u",
        size |-> 20, digest |-> "e", details |-> Details[3]] >>

Entry1 == JObj([name |-> JStr("m:1"), model |-> JStr("m:1"), size |-> JNum(10)])
Entry2 == JObj([name |-> JStr("m:2"), description |-> JStr("two")])

\* bodies the listing endpoint may answer with
ListBodies ==
    << JInvalid,
       JObj([not_models |-> JArr(<< >>)]),
       JObj([models |-> JArr(<< >>)]),
       JObj([models |-> JArr(<< Entry1, Entry2 >>)]),
       JObj([models |-> JArr(<< Entry2, Entry1, Entry2 >>)]),
       JObj([models |-> JNull]),
       JObj([models |-> JArr(<< JObj([model |-> JStr("m:1")]) >>)]),
       JArr(<< JArr(<< >>) >>),
       JArr(<< JArr(<< JArr(<< JStr("m:1"), JNull >>) >>) >>) >>

\* bodies the detail endpoint may answer with
ShowBodies ==
    << JInvalid,
       JObj([modelfile |-> JStr("FROM m:1"), parameters |-> JStr("p"),
             template |-> JStr("t"),
             details |-> JObj([family |-> JStr("f"),
                               parameter_size |-> JStr("3B")]),
             model_info |-> JNull]),
       JObj([name |-> JStr("other"),
             modelfile |-> JStr("FROM m:2"), parameters |-> JStr("q"),
             template |-> JStr("u"),
             details |-> JObj([format |-> JStr("gguf"),
                               families |-> JArr(<< JStr("g"), JStr("h") >>)]),
             model_info |-> JObj([arch |-> JStr("llama")])]),
       JObj([modelfile |-> JStr("FROM m:1"), template |-> JStr("t"),
             details |-> JObj([family |-> JStr("f")])]) >>

\* what the backend may do with a listing request
ListResponses ==
    << NotSent, Unreadable(200) >>
    \o [b \in 1..Len(ListBodies) |-> Answer(200, ListBodies[b])]
    \o << Answer(500, ListBodies[3]), Answer(500, ListBodies[1]),
          Answer(404, ListBodies[4]), Answer(304, ListBodies[4]) >>

\* what the backend may do with a detail request
ShowResponses ==
    << NotSent, Unreadable(200) >>
    \o [b \in 1..Len(ShowBodies) |-> Answer(200, ShowBodies[b])]
    \o << Answer(500, ShowBodies[2]), Answer(404, ShowBodies[1]),
          Answer(304, ShowBodies[3]) >>

(***************************************************************************)
(* State.                                                                  *)
(*   client   the configuration the caller holds, if it made one           *)
(*   origin   how that configuration was made                              *)
(*   hostArg  the argument of the last with_host since it was made (of      *)
(*            Client::new, for a Client)                                   *)
(*   portArg  the argument of the last with_port since it was made         *)
(*   last     the last library operation: its inputs and its outcome       *)
(*   build    the build of the library a program with several calls runs   *)
(*   backend  what the backend answers to a listing request at present     *)
(*   pending  the calls that have started and have not returned            *)
(*   log      the calls that have returned, in the order they returned     *)
(***************************************************************************)
VARIABLES client, origin, hostArg, portArg, last, build, backend, pending, log

vars ==
    << client, origin, hostArg, portArg, last, build, backend, pending, log >>

\* the part of the state that belongs to a program with several calls
calls == << build, backend, pending, log >>

Call(op, mode, cfg, arg, self, resp, fill, out) ==
    [op |-> op, mode |-> mode, cfg |-> cfg, arg |-> arg, self |-> self,
     resp |-> resp, fill |-> fill, out |-> out]

NoArg == [name |-> "", verbose |-> None]

\* an operation that sends nothing
Local(op, cfg, url, result) ==
    Call(op, "sync", cfg, NoArg, Partials[1], NotSent, Fills[1],
         Outcome(url, << >>, FALSE, result))

\* a configuration written down field by field, without a port
Literal(h) == [host |-> h, port |-> None]

Init ==
    /\ \/ client = None /\ origin = "none"
       \/ \E h \in LiteralHosts : client = Some(Literal(h)) /\ origin = "literal"
    /\ hostArg = None
    /\ portArg = None
    /\ last = Local("none", None, "", Err("none"))
    /\ build = "sync"
    /\ backend = NotSent
    /\ pending = {}
    /\ log = << >>

(***************************************************************************)
(* Building configurations.                                                *)
(***************************************************************************)
NewClient ==
    \E b \in BaseUrls :
        /\ client' = Some(Client_new(b))
        /\ origin' = "Client::new"
        /\ hostArg' = Some(b)
        /\ portArg' = None
        /\ last' = Local("Client::new", None, b, Ok(client'.v))
        /\ UNCHANGED calls

NewOllama ==
    /\ client' = Some(Ollama_new)
    /\ origin' = "Ollama::new"
    /\ hostArg' = None
    /\ portArg' = None
    /\ last' = Local("Ollama::new", None, "", Ok(client'.v))
    /\ UNCHANGED calls

WithHost ==
    \E h \in Hosts :
        /\ client.k = "some"
        /\ IsOllama(client.v)
        /\ client' = Some(with_host(client.v, h))
        /\ hostArg' = Some(h)
        /\ last' = Local("with_host", client, h, Ok(client'.v))
        /\ UNCHANGED << origin, portArg >>
        /\ UNCHANGED calls

WithPort ==
    \E p \in Ports :
        /\ client.k = "some"
        /\ IsOllama(client.v)
        /\ client' = Some(with_port(client.v, p))
        /\ portArg' = Some(p)
        /\ last' = Local("with_port", client, ToString(p), Ok(client'.v))
        /\ UNCHANGED << origin, hostArg >>
        /\ UNCHANGED calls

(***************************************************************************)
(* Library calls.  The caller passes its configuration or None.            *)
(***************************************************************************)
BaseUrl ==
    /\ client.k = "some"
    /\ last' = Local("base_url", client, "", Ok(base_url(client.v)))
    /\ UNCHANGED << client, origin, hostArg, portArg >>
    /\ UNCHANGED calls

ListSync ==
    \E c \in {None, client}, r \in 1..Len(ListResponses) :
        /\ last' = Call("list", "sync", c, NoArg, Partials[1], ListResponses[r],
                        Fills[1], list_sync(c, ListResponses[r]))
        /\ UNCHANGED << client, origin, hostArg, portArg >>
        /\ UNCHANGED calls

ListAsync ==
    \E c \in {None, client}, r \in 1..Len(ListResponses) :
        /\ last' = Call("list", "async", c, NoArg, Partials[1], ListResponses[r],
                        Fills[1], list_async(c, ListResponses[r]))
        /\ UNCHANGED << client, origin, hostArg, portArg >>
        /\ UNCHANGED calls

ListModelsSync ==
    \E u \in BaseUrls, r \in 1..Len(ListResponses) :
        /\ last' = Call("list_models", "sync", None, [NoArg EXCEPT !.name = u],
                        Partials[1], ListResponses[r], Fills[1],
                        list_models_sync(u, ListResponses[r]))
        /\ UNCHANGED << client, origin, hostArg, portArg >>
        /\ UNCHANGED calls

ListModelsAsync ==
    \E u \in BaseUrls, r \in 1..Len(ListResponses) :
        /\ last' = Call("list_models", "async", None, [NoArg EXCEPT !.name = u],
                        Partials[1], ListResponses[r], Fills[1],
                        list_models_async(u, ListResponses[r]))
        /\ UNCHANGED << client, origin, hostArg, portArg >>
        /\ UNCHANGED calls

ShowSync ==
    \E c \in {None, client}, a \in 1..Len(ShowArgs), r \in 1..Len(ShowResponses) :
        /\ last' = Call("show", "sync", c, ShowArgs[a], Partials[1],
                        ShowResponses[r], Fills[1],
                        show_sync(c, ShowArgs[a].name, ShowArgs[a].verbose,
                                  ShowResponses[r]))
        /\ UNCHANGED << client, origin, hostArg, portArg >>
        /\ UNCHANGED calls

ShowAsync ==
    \E c \in {None, client}, a \in 1..Len(ShowArgs), r \in 1..Len(ShowResponses) :
        /\ last' = Call("show", "async", c, ShowArgs[a], Partials[1],
                        ShowResponses[r], Fills[1],
                        show_async(c, ShowArgs[a].name, ShowArgs[a].verbose,
                                   ShowResponses[r]))
        /\ UNCHANGED << client, origin, hostArg, portArg >>
        /\ UNCHANGED calls

ToModelSync ==
    \E c \in {None, client}, i \in 1..Len(Partials), f \in 1..Len(Fills),
       r \in 1..Len(ShowResponses) :
        /\ last' = Call("to_model", "sync", c, NoArg, Partials[i],
                        ShowResponses[r], Fills[f],
                        to_model_sync(Partials[i], c, ShowResponses[r], Fills[f]))
        /\ UNCHANGED << client, origin, hostArg, portArg >>
        /\ UNCHANGED calls

ToModelAsync ==
    \E c \in {None, client}, i \in 1..Len(Partials), f \in 1..Len(Fills),
       r \in 1..Len(ShowResponses) :
        /\ last' = Call("to_model", "async", c, NoArg, Partials[i],
                        ShowResponses[r], Fills[f],
                        to_model_async(Partials[i], c, ShowResponses[r], Fills[f]))
        /\ UNCHANGED << client, origin, hostArg, portArg >>
        /\ UNCHANGED calls

ModelJson ==
    \E i \in 1..Len(Models) :
        /\ last' = Call("json", "sync", None, NoArg, Models[i], NotSent,
                        Fills[1], Outcome("", << >>, FALSE, json(Models[i])))
        /\ UNCHANGED << client, origin, hostArg, portArg >>
        /\ UNCHANGED calls

Next ==
    \/ NewClient
    \/ NewOllama
    \/ WithHost
    \/ WithPort
    \/ BaseUrl
    \/ ListModelsSync
    \/ ListModelsAsync
    \/ ListSync
    \/ ListAsync
    \/ ShowSync
    \/ ShowAsync
    \/ ToModelSync
    \/ ToModelAsync
    \/ ModelJson

Spec == Init /\ [][Next]_vars

(***************************************************************************)
(* A program that makes several calls with one configuration.  A call      *)
(* starts by borrowing the configuration (&Client, api/client.rs:27-31)    *)
(* and returns when the backend has answered; calls of several threads or  *)
(* tasks overlap, and the backend's listing may change in between.         *)
(***************************************************************************)
\* the number of calls one program makes
MaxCalls == 3

Builds == {"sync", "async"}

\* what the backend may answer to a listing request
Backends == << ListResponses[6], ListResponses[5], NotSent >>

\* what the backend may answer to a detail request
DetailResponses == << ShowResponses[4], ShowResponses[7], ShowResponses[6] >>

\* the configurations a program may hold
Configs ==
    {Client_new(b) : b \in BaseUrls}
        \cup {with_port(with_host(Ollama_new, "http://0.0.0.0"), 8080)}

\* an operation of the library in the build the program runs
Run(op, mode, cfg, arg, self, resp, fill) ==
    CASE op = "list" /\ mode = "sync" -> list_sync(cfg, resp)
      [] op = "list" /\ mode = "async" -> list_async(cfg, resp)
      [] op = "show" /\ mode = "sync" ->
            show_sync(cfg, arg.name, arg.verbose, resp)
      [] op = "show" /\ mode = "async" ->
            show_async(cfg, arg.name, arg.verbose, resp)
      [] op = "to_model" /\ mode = "sync" ->
            to_model_sync(self, cfg, resp, fill)
      [] op = "to_model" /\ mode = "async" ->
            to_model_async(self, cfg, resp, fill)

Started == Len(log) + Cardinality(pending)

Task(op, arg, self) ==
    [id |-> Started + 1, op |-> op, cfg |-> client, arg |-> arg, self |-> self]

InitCalls ==
    /\ \E c \in Configs : client = Some(c)
    /\ origin = "literal"
    /\ hostArg = None
    /\ portArg = None
    /\ last = Local("none", None, "", Err("none"))
    /\ build \in Builds
    /\ \E b \in 1..Len(Backends) : backend = Backends[b]
    /\ pending = {}
    /\ log = << >>

\* the backend's listing changes
BackendChanges ==
    /\ \E b \in 1..Len(Backends) :
          /\ Backends[b] # backend
          /\ backend' = Backends[b]
    /\ UNCHANGED << client, origin, hostArg, portArg, last, build, pending, log >>

StartList ==
    /\ Started < MaxCalls
    /\ pending' = pending \cup {Task("list", NoArg, Partials[1])}
    /\ UNCHANGED << client, origin, hostArg, portArg, last, build, backend, log >>

StartShow ==
    /\ Started < MaxCalls
    /\ pending' = pending \cup {Task("show", ShowArgs[1], Partials[1])}
    /\ UNCHANGED << client, origin, hostArg, portArg, last, build, backend, log >>

\* variant with a slip: the call rewrites the configuration it borrowed
StartToModel_rebind ==
    /\ Started < MaxCalls
    /\ \E i \in 1..Len(Partials) :
          pending' = pending \cup {Task("to_model", NoArg, Partials[i])}
    /\ client' = Some(Client_new(TEST_ENDPOINT))
    /\ UNCHANGED << origin, hostArg, portArg, last, build, backend, log >>

StartToModel ==
    /\ Started < MaxCalls
    /\ \E i \in 1..Len(Partials) :
          pending' = pending \cup {Task("to_model", NoArg, Partials[i])}
    /\ UNCHANGED << client, origin, hostArg, portArg, last, build, backend, log >>

\* what a call that returns adds to the log
Returned(t, resp) ==
    [id |-> t.id,
     call |-> Call(t.op, build, t.cfg, t.arg, t.self, resp, Fills[1],
                   Run(t.op, build, t.cfg, t.arg, t.self, resp, Fills[1]))]

\* variant with a slip: the listing is added to the records of the call
\* before
FinishList_accumulate ==
    \E t \in pending :
        /\ t.op = "list"
        /\ pending' = pending \ {t}
        /\ LET e == Returned(t, backend)
               before == SelectSeq(log, LAMBDA x : x.call.op = "list"
                                                    /\ x.call.out.result.ok)
           IN log' = Append(log,
                 IF e.call.out.result.ok /\ before # << >>
                 THEN [e EXCEPT !.call.out.result.val =
                          before[Len(before)].call.out.result.val \o @]
                 ELSE e)
        /\ UNCHANGED << client, origin, hostArg, portArg, last, build, backend >>

FinishList ==
    \E t \in pending :
        /\ t.op = "list"
        /\ pending' = pending \ {t}
        /\ log' = Append(log, Returned(t, backend))
        /\ UNCHANGED << client, origin, hostArg, portArg, last, build, backend >>

\* variant with a slip: once a detail call has failed, the calls after it
\* return its error
FinishDetail_sticky ==
    \E t \in pending, r \in 1..Len(DetailResponses) :
        /\ t.op \in {"show", "to_model"}
        /\ pending' = pending \ {t}
        /\ LET e == Returned(t, DetailResponses[r])
               failed == SelectSeq(log, LAMBDA x : x.call.op = t.op
                                                    /\ ~x.call.out.result.ok)
           IN log' = Append(log,
                 IF failed # << >>
                 THEN [e EXCEPT !.call.out.result = failed[1].call.out.result]
                 ELSE e)
        /\ UNCHANGED << client, origin, hostArg, portArg, last, build, backend >>

FinishDetail ==
    \E t \in pending, r \in 1..Len(DetailResponses) :
        /\ t.op \in {"show", "to_model"}
        /\ pending' = pending \ {t}
        /\ log' = Append(log, Returned(t, DetailResponses[r]))
        /\ UNCHANGED << client, origin, hostArg, portArg, last, build, backend >>

NextCalls ==
    \/ BackendChanges
    \/ StartList
    \/ StartShow
    \/ StartToModel
    \/ FinishList
    \/ FinishDetail

SpecCalls == InitCalls /\ [][NextCalls]_vars

(***************************************************************************)
(* Properties.                                                             *)
(***************************************************************************)
ModelFields ==
    {"name", "model", "modified_at", "size", "digest", "parameters",
     "template", "details", "model_info"}

Suffix(op) == IF op = "list" THEN API_TAGS_ENDPOINT ELSE SHOW_ENDPOINT

\* the detail call to_model is to make, in the build the last call ran in
DetailOf(c) ==
    IF c.mode = "sync"
    THEN show_sync(c.cfg, c.self.model, Some(TRUE), c.resp)
    ELSE show_async(c.cfg, c.self.model, Some(TRUE), c.resp)

\* C1: whenever to_model succeeds, the name of the record it returns is the
\* name of the PartialModel it was called on, whatever name the detail side
\* reported.
C1_NameIsPartialName ==
    (last.op = "to_model" /\ last.out.result.ok)
        => last.out.result.val.name = last.self.name

C1_Witness ==
    /\ last.op = "to_model"
    /\ last.out.result.ok
    /\ last.fill.name # last.self.name
    /\ last.out.result.val.name = last.self.name

\* C2: in every listing and detail function, a response whose status is not
\* 2xx gives a TransportError and its body is never handed to the JSON parser.
C2_StatusCheckedBeforeParse ==
    (/\ last.op \in {"list", "list_models", "show"}
     /\ last.resp.sent
     /\ ~IsSuccess(last.resp.status))
        => /\ ~last.out.result.ok
           /\ last.out.result.err = TransportError
           /\ ~last.out.parsed

\* the listing body is not JSON, or is not an object with a models array
LacksModelsArray(body) ==
    \/ body.k = "invalid"
    \/ ~HasField(body, "models")
    \/ body.v.models.k # "arr"

\* C3: a success status with a listing body that is not JSON or lacks the
\* models array makes list return a DecodeError, never a successful result.
C3_MalformedListingIsDecodeError ==
    (/\ last.op = "list"
     /\ last.resp.sent
     /\ IsSuccess(last.resp.status)
     /\ last.resp.readable
     /\ LacksModelsArray(last.resp.body))
        => /\ ~last.out.result.ok
           /\ last.out.result.err = DecodeError

\* a listing answer with a success status whose body is an object with a
\* models array of objects, each with a string name
ValidListing(resp) ==
    /\ resp.sent
    /\ IsSuccess(resp.status)
    /\ resp.readable
    /\ ~LacksModelsArray(resp.body)
    /\ \A i \in 1..Len(resp.body.v.models.v) :
          LET e == resp.body.v.models.v[i]
          IN /\ HasField(e, "name")
             /\ e.v.name.k = "str"
             /\ HasField(e, "description") => e.v.description.k \in {"str", "null"}

\* C4: for a valid listing response with N entries list returns N records,
\* the i-th being the i-th entry: nothing dropped, repeated, sorted or merged.
C4_ListKeepsEntriesInOrder ==
    (last.op = "list" /\ ValidListing(last.resp))
        => /\ last.out.result.ok
           /\ Len(last.out.result.val) = Len(last.resp.body.v.models.v)
           /\ \A i \in 1..Len(last.resp.body.v.models.v) :
                 last.out.result.val[i].name = last.resp.body.v.models.v[i].v.name.v

C4_Witness ==
    /\ last.op = "list"
    /\ ValidListing(last.resp)
    /\ last.out.result.ok
    /\ Len(last.out.result.val) = 3
    /\ last.out.result.val[1] = last.out.result.val[3]
    /\ last.out.result.val[1].name = "m:2"
    /\ last.out.result.val[2].name = "m:1"

\* what the other build returns for the inputs of the last call
OtherBuild(c) ==
    CASE c.op = "list" /\ c.mode = "sync" -> list_async(c.cfg, c.resp)
      [] c.op = "list" /\ c.mode = "async" -> list_sync(c.cfg, c.resp)
      [] c.op = "show" /\ c.mode = "sync" ->
            show_async(c.cfg, c.arg.name, c.arg.verbose, c.resp)
      [] c.op = "show" /\ c.mode = "async" ->
            show_sync(c.cfg, c.arg.name, c.arg.verbose, c.resp)
      [] c.op = "to_model" /\ c.mode = "sync" ->
            to_model_async(c.self, c.cfg, c.resp, c.fill)
      [] c.op = "to_model" /\ c.mode = "async" ->
            to_model_sync(c.self, c.cfg, c.resp, c.fill)

\* C5: the blocking and the non-blocking build of list, show and to_model
\* give, for the same inputs and the same backend behaviour, the same request
\* URL, the same requests and the same result, also when no client is passed.
C5_BuildsAgree ==
    last.op \in {"list", "show", "to_model"}
        => /\ OtherBuild(last).url = last.out.url
           /\ OtherBuild(last).reqs = last.out.reqs
           /\ OtherBuild(last).result.ok = last.out.result.ok
           /\ OtherBuild(last).result = last.out.result

\* C6: the request URL of list and of show is base_url() of the client that
\* was passed followed by the endpoint suffix, and without a client the base
\* URL of a freshly made configuration followed by the suffix.
C6_RequestUrl ==
    last.op \in {"list", "show"}
        => last.out.url =
              (IF last.cfg.k = "some" THEN base_url(last.cfg.v)
               ELSE Ollama_base_url(Ollama_new)) \o Suffix(last.op)

\* C7: base_url() of a configuration without a port is its host as given, of
\* a configuration with port p it is host, ":" and p; the call leaves the
\* configuration as it was.
C7_BaseUrl ==
    last.op = "base_url"
        => /\ client = last.cfg
           /\ origin = "Client::new" => last.out.result.val = hostArg.v
           /\ (IsOllama(client.v) /\ client.v.port.k = "none")
                 => last.out.result.val = client.v.host
           /\ (IsOllama(client.v) /\ client.v.port.k = "some")
                 => last.out.result.val =
                       client.v.host \o ":" \o ToString(client.v.port.v)

C7_Witness ==
    /\ last.op = "base_url"
    /\ origin = "Client::new"
    /\ last.out.result.val = "http://0.0.0.0:11434"

C7_WitnessPort ==
    /\ last.op = "base_url"
    /\ IsOllama(client.v)
    /\ last.out.result.val = "http://0.0.0.0:8080"

\* C8: new() gives host http://localhost and port 11434, and after any
\* chain of with_host and with_port calls the host is the argument of the
\* last with_host (the default without one) and the port the argument of the
\* last with_port (the default without one).
C8_BuilderOverridesOwnField ==
    origin = "Ollama::new"
        => /\ client.v.host = (IF hostArg.k = "some" THEN hostArg.v
                               ELSE "http://localhost")
           /\ client.v.port = Some(IF portArg.k = "some" THEN portArg.v
                                   ELSE 11434)

C8_Witness ==
    /\ origin = "Ollama::new"
    /\ last.op = "with_host"
    /\ portArg = Some(8080)
    /\ client.v = [host |-> "http://0.0.0.0", port |-> Some(8080)]

\* C9: to_model calls the detail operation with the PartialModel's model (not
\* its name), with verbose = true, and with the client it was given.
C9_ToModelCallsShowByModel ==
    last.op = "to_model"
        => /\ Len(last.out.reqs) = 1
           /\ last.out.reqs[1].method = "POST"
           /\ last.out.reqs[1].body = ShowRequest(last.self.model, Some(TRUE))
           /\ last.cfg.k = "some"
                 => last.out.reqs[1].url = base_url(last.cfg.v) \o SHOW_ENDPOINT

C9_Witness ==
    /\ last.op = "to_model"
    /\ last.self.name # last.self.model
    /\ last.cfg.k = "some"
    /\ last.resp.sent
    /\ last.out.reqs[1].body.v.name = JStr(last.self.model)

\* C10: when the detail operation fails, to_model returns that same error and
\* no record, after one request; a to_model call ends with a complete record
\* or with an error.
C10_ToModelFailsAsUnit ==
    last.op = "to_model"
        => /\ ~DetailOf(last).result.ok
                 => /\ ~last.out.result.ok
                    /\ last.out.result = DetailOf(last).result
                    /\ Len(last.out.reqs) = 1
           /\ last.out.result.ok
                 => /\ DetailOf(last).result.ok
                    /\ DOMAIN last.out.result.val = ModelFields

C10_Witness ==
    /\ last.op = "to_model"
    /\ last.resp.sent
    /\ ~last.out.result.ok
    /\ last.out.result.err = DecodeError

\* the listing read fails at one of its stages: the request is not sent, the
\* status is not a success status, the body cannot be read or does not decode
ListReadFails(resp) ==
    \/ ~resp.sent
    \/ ~IsSuccess(resp.status)
    \/ ~resp.readable
    \/ ~from_str("ModelsResponse", resp.body).ok

\* C11: when the catalog read fails at any stage (request not sent, status
\* not a success status, body not readable, body not decodable) list returns
\* an error and no records, never a part of the listing.
C11_FailedReadGivesNoRecords ==
    (last.op = "list" /\ ListReadFails(last.resp))
        => /\ ~last.out.result.ok
           /\ "val" \notin DOMAIN last.out.result

\* the detail read passes every stage: the request is sent, the status is
\* not an error status, the body is read and decodes
DetailReadPasses(resp) ==
    /\ resp.sent
    /\ resp.status \notin 400..599
    /\ resp.readable
    /\ from_str("ShowResponse", resp.body).ok

\* the calls of to_model that have returned, in the order they returned
Enriched == SelectSeq(log, LAMBDA e : e.call.op = "to_model")

\* C12: when the records of a catalog are enriched one after the other, the
\* outcome of each to_model is decided by its own record and its own detail
\* response, whatever became of the calls before it, and a call that returns
\* leaves the results of the calls before it as they were.
C12_FailureStaysLocal ==
    /\ [](\A i \in 1..Len(Enriched) :
            LET c == Enriched[i].call
            IN /\ c.out.result.ok <=> DetailReadPasses(c.resp)
               /\ c.out.result.ok
                     => /\ c.out.result.val.name = c.self.name
                        /\ c.out.result.val.details
                              = from_str("ShowResponse", c.resp.body).val.details)
    /\ [][/\ Len(log') >= Len(log)
          /\ SubSeq(log', 1, Len(log)) = log]_vars

C12_Witness ==
    /\ Len(Enriched) = 3
    /\ Enriched[1].call.out.result.ok
    /\ ~Enriched[2].call.out.result.ok
    /\ Enriched[3].call.out.result.ok
    /\ Enriched[3].call.out.result.val.name = "alias"

\* C17: two calls of list with the same configuration that get the same
\* answer of the backend return equal results and send equal requests; no
\* call of list leaves anything behind that a later one would see.
C17_ListIdempotent ==
    \A i \in 1..Len(log) : \A j \in 1..Len(log) :
        (/\ log[i].call.op = "list"
         /\ log[j].call.op = "list"
         /\ log[i].call.cfg = log[j].call.cfg
         /\ log[i].call.resp = log[j].call.resp)
            => log[i].call.out = log[j].call.out

C17_Witness ==
    /\ Len(log) = 3
    /\ \A i \in 1..3 : log[i].call.op = "list"
    /\ log[1].call.resp = log[3].call.resp
    /\ log[2].call.resp # log[1].call.resp
    /\ log[1].call.out.result.ok
    /\ Len(log[1].call.out.result.val) = 2
    /\ log[3].call.out = log[1].call.out
    /\ log[2].call.out.result.ok

\* C18: no call changes the configuration it is given: through every
\* interleaving of calls that share one configuration the configuration
\* (host, port, base URL) stays as it was, and the URL of every call is the
\* base URL of that configuration followed by the path of the operation.
C18_ConfigUnchanged ==
    /\ [][client' = client]_vars
    /\ [](/\ \A t \in pending : t.cfg = client
          /\ \A i \in 1..Len(log) :
                /\ log[i].call.cfg = client
                /\ log[i].call.out.url
                      = base_url(client.v) \o Suffix(log[i].call.op))

C18_Witness ==
    /\ Len(log) = 3
    /\ log[1].id = 3
    /\ log[2].id = 1
    /\ log[1].call.op = "to_model"
    /\ log[2].call.op = "list"
    /\ log[3].call.op = "show"
    /\ IsOllama(client.v)
    /\ log[1].call.out.url = "http://0.0.0.0:8080/api/show"

\* the ShowResponse the last call decoded
Decoded(c) == from_str("ShowResponse", c.resp.body).val

C15_JsonRoundTrip ==
    last.op = "json"
        => /\ last.out.result.ok
           /\ from_str("structs::Model", last.out.result.val).ok
           /\ \A f \in DOMAIN last.self :
                 from_str("structs::Model", last.out.result.val).val[f]
                    = last.self[f]
           /\ DOMAIN from_str("structs::Model", last.out.result.val).val
                 = DOMAIN last.self

C15_Witness ==
    /\ last.op = "json"
    /\ last.self.details.parent_model = None
    /\ last.self.details.families = Some(<< >>)
    /\ last.out.result.ok
    /\ last.out.result.val.v.details.v.parent_model = JNull
    /\ from_str("structs::Model", last.out.result.val) = Ok(last.self)

\* C16: show issues a POST whose body has name equal to the model identifier
\* and verbose equal to the flag given; without a flag the verbose field is
\* absent from the body or false, never another value.
C16_ShowRequestBody ==
    last.op = "show"
        => /\ Len(last.out.reqs) = 1
           /\ last.out.reqs[1].method = "POST"
           /\ last.out.reqs[1].body.v.name = JStr(last.arg.name)
           /\ last.arg.verbose.k = "some"
                 => last.out.reqs[1].body.v.verbose = JBool(last.arg.verbose.v)
           /\ last.arg.verbose.k = "none"
                 => \/ ~HasField(last.out.reqs[1].body, "verbose")
                    \/ last.out.reqs[1].body.v.verbose = JBool(FALSE)

\* C19: each call sends exactly one HTTP request: list one GET, show one
\* POST, to_model one POST and no GET; a call that fails at any stage sends
\* no further request.
C19_OneRequestPerCall ==
    /\ last.op = "list"
          => Len(last.out.reqs) = 1 /\ last.out.reqs[1].method = "GET"
    /\ last.op = "show"
          => Len(last.out.reqs) = 1 /\ last.out.reqs[1].method = "POST"
    /\ last.op = "to_model"
          => Len(last.out.reqs) = 1 /\ last.out.reqs[1].method = "POST"

C19_Witness ==
    /\ last.op = "to_model"
    /\ last.resp.sent
    /\ last.resp.status = 500
    /\ ~last.out.result.ok
    /\ Len(last.out.reqs) = 1

\* C20: when to_model succeeds for a partial record, model, modified_at, size
\* and digest of the record it returns are those of the partial record.
C20_IdentityFieldsFromPartial ==
    (last.op = "to_model" /\ last.out.result.ok)
        => /\ last.out.result.val.model = last.self.model
           /\ last.out.result.val.modified_at = last.self.modified_at
           /\ last.out.result.val.size = last.self.size
           /\ last.out.result.val.digest = last.self.digest

====
